---- MODULE Spec2Model ----
(***************************************************************************)
(* Model of review.py: the clip registry (find_clips), the Model           *)
(* (delete_marked_clips) and the CursesViewController event loop with its  *)
(* two input modes (NormalMode, PlayMode).                                  *)
(*                                                                         *)
(* A file path is a tuple <<kind, dir, stem>>: kind is "mov" or "mts" (the  *)
(* file ending), dir is the sub-directory of the scanned tree the file     *)
(* lies in and stem is the file name without its ending.  Python compares   *)
(* the path strings character by character, which for paths of this shape  *)
(* is the lexicographic order on (dir, stem).                               *)
(*                                                                         *)
(* Rendering (curses windows, pads, colours) is not state of the model;    *)
(* last_in is kept out as well, it is only printed in the status bar.      *)
(*                                                                         *)
(* arg and res hold the arguments and the result of a function that is     *)
(* run on its own (find_clips, __trunc_text); a session leaves them alone. *)
(***************************************************************************)
EXTENDS Integers, Sequences, FiniteSets, TLC

VARIABLES clips, disk, read_only, exit, crashed, in_buf, msg,
          cursor_line, top_v_line, rows, rows_editor, mode, p, alive,
          arg, res

vars == <<clips, disk, read_only, exit, crashed, in_buf, msg,
          cursor_line, top_v_line, rows, rows_editor, mode, p, alive,
          arg, res>>

(***************************************************************************)
(* Bounds of the model.                                                    *)
(***************************************************************************)
MaxDirs == 2
MaxMtsDirs == 1
MaxStems == 3
MaxDupStems == 1
MaxClips == 3
MaxRows == 4
MaxBuf == 3
MaxText == 5
MaxCols == 6

\* The file systems a session is started on.  Preview files: sub-directory 1
\* holds the stems 1..n (the code only compares and orders stems, so any
\* other choice of n stems behaves alike), the other sub-directories hold
\* further files of the first MaxDupStems stems.  Raw files: every stem that
\* has a preview file has raw files; files without a partner are never
\* touched by a session and are left to the registry's own properties.
MovCands == {f \in {<<"mov", d, s>> : d \in 1..MaxDirs, s \in 1..MaxStems} :
                f[2] = 1 \/ f[3] <= MaxDupStems}
MtsCands == {<<"mts", d, s>> : d \in 1..MaxMtsDirs, s \in 1..MaxStems}

SessionFileSystems ==
    {fs \in [movs : SUBSET MovCands, mtss : SUBSET MtsCands] :
        /\ \A f \in fs.movs : f[2] = 1 =>
               \A t \in 1..f[3] : <<"mov", 1, t>> \in fs.movs
        /\ {f[3] : f \in fs.movs} = {f[3] : f \in fs.mtss}}

\* Terminal heights the session is run with: at least one editor row.
RowsRange == 3..MaxRows

\* Keys: printable characters typed with an empty buffer, printable
\* characters typed while a ":" command is pending, and the special keys.
NormalKeys == {":", "j", "k", "g", "G", "l", "h", " ", "d", "x"}
CmdChars == {"w", "q", "!", "c"}

NoFile == <<"none", 0, 0>>

NoCall == [fn |-> "none"]
NoRes == [done |-> FALSE, val |-> <<>>]

Max(a, b) == IF a >= b THEN a ELSE b
Min(a, b) == IF a <= b THEN a ELSE b

(***************************************************************************)
(* ClipRegistry                                                            *)
(***************************************************************************)
get_file_name_base(file_path) == file_path[3]

PathLess(a, b) == a[2] < b[2] \/ (a[2] = b[2] /\ a[3] < b[3])

RECURSIVE sorted(_)
sorted(S) ==
    IF S = {} THEN <<>>
    ELSE LET m == CHOOSE x \in S : \A y \in S \ {x} : PathLess(x, y)
         IN <<m>> \o sorted(S \ {m})

Clip(mov_fp, mts_fp) ==
    [mov_file_path |-> mov_fp, mts_file_path |-> mts_fp,
     played |-> FALSE, marked_for_del |-> FALSE]

\* mts_files of find_clips: file name base -> complete path.  When several
\* raw files share a base the entry written last wins, and os.walk yields
\* sibling directories in no fixed order, so any of them may be the entry.
MtsFilesChoices(mts_file_pathes) ==
    LET bases == {get_file_name_base(f) : f \in mts_file_pathes}
    IN {f \in [bases -> mts_file_pathes] :
           \A b \in bases : get_file_name_base(f[b]) = b}

RECURSIVE PairClips(_, _, _)
PairClips(movs, mts_files, i) ==
    IF i > Len(movs) THEN <<>>
    ELSE LET mov_fp == movs[i]
             fn_base == get_file_name_base(mov_fp)
         IN (IF fn_base \in DOMAIN mts_files
             THEN <<Clip(mov_fp, mts_files[fn_base])>>
             ELSE <<>>) \o PairClips(movs, mts_files, i + 1)

find_clips(mov_file_pathes, mts_files) ==
    PairClips(sorted(mov_file_pathes), mts_files, 1)

(***************************************************************************)
(* Model                                                                   *)
(***************************************************************************)
RECURSIVE RemoveClip(_, _)
RemoveClip(cl, c) ==
    IF cl = <<>> THEN <<>>
    ELSE IF Head(cl).mov_file_path = c.mov_file_path THEN Tail(cl)
    ELSE <<Head(cl)>> \o RemoveClip(Tail(cl), c)

\* os.remove raises when the file is not there or may not be removed; deny
\* is the file the operating system refuses to remove (NoFile: none).
os_remove_raises(dk, f, deny) == f \notin dk \/ f = deny

RECURSIVE DeleteLoop(_, _, _, _, _)
DeleteLoop(cl, dk, to_del, i, deny) ==
    IF i > Len(to_del) THEN [clips |-> cl, disk |-> dk, raised |-> FALSE]
    ELSE LET c == to_del[i]
             dk1 == dk \ {c.mov_file_path}
             dk2 == dk1 \ {c.mts_file_path}
         IN IF os_remove_raises(dk, c.mov_file_path, deny)
            THEN [clips |-> cl, disk |-> dk, raised |-> TRUE]
            ELSE IF os_remove_raises(dk1, c.mts_file_path, deny)
            THEN [clips |-> cl, disk |-> dk1, raised |-> TRUE]
            ELSE DeleteLoop(RemoveClip(cl, c), dk2, to_del, i + 1, deny)

IsMarked(c) == c.marked_for_del

delete_marked_clips(cl, dk, deny) ==
    DeleteLoop(cl, dk, SelectSeq(cl, IsMarked), 1, deny)

(***************************************************************************)
(* CursesViewController: the methods, as functions of the controller       *)
(* record s (its fields are the variables of the same names).              *)
(***************************************************************************)
View == [clips |-> clips, disk |-> disk, exit |-> exit, crashed |-> crashed,
         msg |-> msg, cursor_line |-> cursor_line, top_v_line |-> top_v_line,
         rows |-> rows, rows_editor |-> rows_editor, mode |-> mode, p |-> p,
         alive |-> alive]

NoMsg == [kind |-> "none", text |-> <<>>]
UnsavedMsg == [kind |-> "unsaved", text |-> <<>>]
UnknownMsg(buf) == [kind |-> "unknown", text |-> buf]

init_curses(s, newRows) == [s EXCEPT !.rows = newRows]

\* Variant of reset_editor: cursor and top are not clamped to the list.
reset_editor_unclamped(s) == [s EXCEPT !.rows_editor = s.rows - 2]

reset_editor(s) ==
    [s EXCEPT !.cursor_line = Max(0, Min(Len(s.clips) - 1, s.cursor_line)),
              !.top_v_line = Max(0, Min(Len(s.clips) - 1, s.top_v_line)),
              !.rows_editor = s.rows - 2]

reset(s) == reset_editor(s)

\* Variants of move_cursor_line: without the clamp at the list's end, and
\* scrolling the cursor line to the top of the window instead of its bottom.
move_cursor_line_unclamped(s, inc) ==
    LET cl == Max(0, s.cursor_line + inc)
        lines_below_window == (cl - s.top_v_line) - (s.rows - 3)
        lines_above_window == s.top_v_line - cl
    IN [s EXCEPT !.cursor_line = cl,
                 !.top_v_line = IF lines_below_window > 0
                                THEN s.top_v_line + lines_below_window
                                ELSE IF lines_above_window > 0
                                THEN s.top_v_line - lines_above_window
                                ELSE s.top_v_line]

move_cursor_line_to_top(s, inc) ==
    LET cl == Max(0, Min(Len(s.clips) - 1, s.cursor_line + inc))
        lines_below_window == (cl - s.top_v_line) - (s.rows - 3)
        lines_above_window == s.top_v_line - cl
    IN [s EXCEPT !.cursor_line = cl,
                 !.top_v_line = IF lines_below_window > 0 THEN cl
                                ELSE IF lines_above_window > 0
                                THEN s.top_v_line - lines_above_window
                                ELSE s.top_v_line]

move_cursor_line(s, inc) ==
    LET cl == Max(0, Min(Len(s.clips) - 1, s.cursor_line + inc))
        lines_below_window == (cl - s.top_v_line) - (s.rows - 3)
        lines_above_window == s.top_v_line - cl
    IN [s EXCEPT !.cursor_line = cl,
                 !.top_v_line = IF lines_below_window > 0
                                THEN s.top_v_line + lines_below_window
                                ELSE IF lines_above_window > 0
                                THEN s.top_v_line - lines_above_window
                                ELSE s.top_v_line]

move_cursor_line_all_up(s) ==
    [s EXCEPT !.cursor_line = 0, !.top_v_line = 0]

\* Variant of move_cursor_line_all_down with the window one row too high.
move_cursor_line_all_down_off_by_one(s) ==
    [s EXCEPT !.cursor_line = Len(s.clips) - 1,
              !.top_v_line = Max(0, (Len(s.clips) - 1) - s.rows_editor)]

move_cursor_line_all_down(s) ==
    [s EXCEPT !.cursor_line = Len(s.clips) - 1,
              !.top_v_line = Max(0, (Len(s.clips) - 1) - (s.rows_editor - 1))]

\* Marks the clip played and spawns the player process.
play_at_cursor_line(s) ==
    [s EXCEPT !.clips[s.cursor_line + 1].played = TRUE,
              !.alive = s.alive + 1]

\* Variant of toggle_del_at_cursor_line: sets the mark instead of negating it.
toggle_del_at_cursor_line_set(s, ro) ==
    IF ro THEN s
    ELSE [s EXCEPT !.clips[s.cursor_line + 1].marked_for_del = TRUE]

toggle_del_at_cursor_line(s, ro) ==
    IF ro THEN s
    ELSE [s EXCEPT !.clips[s.cursor_line + 1].marked_for_del =
                       ~s.clips[s.cursor_line + 1].marked_for_del]

\* Variant of set_msg: the message is not stored.
set_msg_dropped(s, m) == s

set_msg(s, m) == [s EXCEPT !.msg = m]

\* switch_mode(NormalMode(vc)) and switch_mode(PlayMode(vc, p)): the mode
\* object carries the process handle.
switch_mode(s, m, proc) == [s EXCEPT !.mode = m, !.p = proc]

\* Variants of exit_no_save_forced: one that commits before leaving, one
\* that respects the marks as :q does.
exit_no_save_forced_committing(s) ==
    LET r == delete_marked_clips(s.clips, s.disk, NoFile)
    IN [s EXCEPT !.clips = r.clips, !.disk = r.disk, !.exit = TRUE]

exit_no_save_forced_guarded(s) ==
    IF \E i \in 1..Len(s.clips) : s.clips[i].marked_for_del
    THEN [s EXCEPT !.msg = UnsavedMsg]
    ELSE [s EXCEPT !.exit = TRUE]

exit_no_save_forced(s) == [s EXCEPT !.exit = TRUE]

\* Variant of exit_no_save without the check for unsaved marks.
exit_no_save_unchecked(s) == [s EXCEPT !.exit = TRUE]

exit_no_save(s) ==
    IF \E i \in 1..Len(s.clips) : s.clips[i].marked_for_del
    THEN [s EXCEPT !.msg = UnsavedMsg]
    ELSE [s EXCEPT !.exit = TRUE]

\* Variant of save: the loop goes on after the last clip is removed.
save_no_exit(s, ro, deny) ==
    IF ro THEN s
    ELSE LET r == delete_marked_clips(s.clips, s.disk, deny)
             s1 == [s EXCEPT !.clips = r.clips, !.disk = r.disk]
         IN IF r.raised THEN [s1 EXCEPT !.crashed = TRUE] ELSE reset(s1)

\* An exception of os.remove leaves save() and the loop: crashed.
save(s, ro, deny) ==
    IF ro THEN s
    ELSE LET r == delete_marked_clips(s.clips, s.disk, deny)
             s1 == [s EXCEPT !.clips = r.clips, !.disk = r.disk]
         IN IF r.raised THEN [s1 EXCEPT !.crashed = TRUE]
            ELSE reset(IF Len(s1.clips) = 0
                       THEN [s1 EXCEPT !.exit = TRUE] ELSE s1)

(***************************************************************************)
(* The modes                                                               *)
(***************************************************************************)
\* Variants of PlayMode.update: one that does not poll the process, one
\* that never leaves Play mode.
PlayMode_update_unpolled(s) == switch_mode(s, "NORMAL", "none")

PlayMode_update_never(s) == s

PlayMode_update(s) ==
    IF s.p # "running" THEN switch_mode(s, "NORMAL", "none") ELSE s

\* p.kill() ends the process unless it has ended already.
kill(s) == IF s.p = "running"
           THEN [s EXCEPT !.p = "killed", !.alive = s.alive - 1] ELSE s

\* Variants of PlayMode.handle_input: one that keeps the keys it ignores in
\* the buffer, one that leaves Play mode without killing the player.
PlayMode_handle_input_buffering(s, buf) ==
    [s |-> IF buf = <<" ">> THEN switch_mode(kill(s), "NORMAL", "none") ELSE s,
     consumed |-> buf = <<" ">>]

PlayMode_handle_input_no_kill(s, buf) ==
    [s |-> IF buf = <<" ">> THEN switch_mode(s, "NORMAL", "none") ELSE s,
     consumed |-> TRUE]

PlayMode_handle_input(s, buf) ==
    [s |-> IF buf = <<" ">> THEN switch_mode(kill(s), "NORMAL", "none") ELSE s,
     consumed |-> TRUE]

NormalMode_update(s) == s

NormalMode_command(s, buf, ro, deny) ==
    IF buf = <<":", "w">> THEN save(s, ro, deny)
    ELSE IF buf = <<":", "w", "q">>
    THEN LET s1 == save(s, ro, deny)
         IN IF s1.crashed THEN s1 ELSE exit_no_save(s1)
    ELSE IF buf = <<":", "q">> THEN exit_no_save(s)
    ELSE IF buf = <<":", "q", "!">> \/ buf = <<":", "c", "q">>
    THEN exit_no_save_forced(s)
    ELSE set_msg(s, UnknownMsg(buf))

NormalMode_handle_input(s, buf, enter_pressed, ro, deny) ==
    IF buf # <<>> /\ Head(buf) = ":"
    THEN IF enter_pressed
         THEN [s |-> NormalMode_command(s, buf, ro, deny), consumed |-> TRUE]
         ELSE [s |-> s, consumed |-> FALSE]
    ELSE [s |-> IF buf = <<"j">> THEN move_cursor_line(s, 1)
                ELSE IF buf = <<"k">> THEN move_cursor_line(s, -1)
                ELSE IF buf = <<"g">> THEN move_cursor_line_all_up(s)
                ELSE IF buf = <<"G">> THEN move_cursor_line_all_down(s)
                ELSE IF buf = <<"l">> THEN move_cursor_line(s, s.rows_editor - 1)
                ELSE IF buf = <<"h">> THEN move_cursor_line(s, -(s.rows_editor - 1))
                ELSE IF buf = <<" ">>
                THEN switch_mode(play_at_cursor_line(s), "PLAY", "running")
                ELSE IF buf = <<"d">> THEN toggle_del_at_cursor_line(s, ro)
                ELSE s,
          consumed |-> TRUE]

handle_input(s, buf, enter_pressed, ro, deny) ==
    IF s.mode = "PLAY" THEN PlayMode_handle_input(s, buf)
    ELSE NormalMode_handle_input(s, buf, enter_pressed, ro, deny)

(***************************************************************************)
(* The event loop: one iteration for a key ch (a printable character,      *)
(* "ENTER", "BACKSPACE", "RESIZE" or "OTHER").                             *)
(***************************************************************************)
Printable(ch) == ch \in NormalKeys \cup CmdChars

LoopKey(ch, newRows, deny) ==
    LET s0 == [View EXCEPT !.msg = NoMsg]
        s1 == IF ch = "RESIZE" THEN reset(init_curses(s0, newRows)) ELSE s0
        buf == IF Printable(ch) THEN Append(in_buf, ch)
               ELSE IF ch = "BACKSPACE"
               THEN SubSeq(in_buf, 1, Len(in_buf) - 1)
               ELSE in_buf
        r == handle_input(s1, buf, ch = "ENTER", read_only, deny)
        s2 == r.s
    IN /\ clips' = s2.clips
       /\ disk' = s2.disk
       /\ exit' = s2.exit
       /\ crashed' = s2.crashed
       /\ msg' = s2.msg
       /\ cursor_line' = s2.cursor_line
       /\ top_v_line' = s2.top_v_line
       /\ rows' = s2.rows
       /\ rows_editor' = s2.rows_editor
       /\ mode' = s2.mode
       /\ p' = s2.p
       /\ alive' = s2.alive
       /\ in_buf' = IF r.consumed /\ ~s2.crashed THEN <<>> ELSE buf
       /\ UNCHANGED <<read_only, arg, res>>

Running == ~exit /\ ~crashed

KeyChar ==
    /\ Running
    /\ Len(in_buf) < MaxBuf
    /\ \E ch \in (IF in_buf = <<>> THEN NormalKeys ELSE CmdChars) :
           LoopKey(ch, rows, NoFile)

\* The files a commit would remove; one of them, or none, is refused.
FilesToDelete ==
    UNION {{clips[i].mov_file_path, clips[i].mts_file_path} :
              i \in {j \in 1..Len(clips) : clips[j].marked_for_del}}

KeyEnter ==
    /\ Running
    /\ \E deny \in {NoFile} \cup FilesToDelete : LoopKey("ENTER", rows, deny)

KeyBackspace ==
    /\ Running
    /\ LoopKey("BACKSPACE", rows, NoFile)

KeyResize ==
    /\ Running
    /\ \E newRows \in RowsRange : LoopKey("RESIZE", newRows, NoFile)

KeyOther ==
    /\ Running
    /\ LoopKey("OTHER", rows, NoFile)

\* getch() timed out: the mode's update().
IdleTick ==
    /\ Running
    /\ LET s2 == IF mode = "PLAY" THEN PlayMode_update(View)
                 ELSE NormalMode_update(View)
       IN /\ mode' = s2.mode
          /\ p' = s2.p
    /\ UNCHANGED <<clips, disk, read_only, exit, crashed, in_buf, msg,
                   cursor_line, top_v_line, rows, rows_editor, alive,
                   arg, res>>

\* The player process ends by itself (cvlc --play-and-exit).
ProcExit ==
    /\ p = "running"
    /\ p' = "exited"
    /\ alive' = alive - 1
    /\ UNCHANGED <<clips, disk, read_only, exit, crashed, in_buf, msg,
                   cursor_line, top_v_line, rows, rows_editor, mode,
                   arg, res>>

(***************************************************************************)
(* main() and CursesViewController.__init__                                *)
(***************************************************************************)
Init ==
    \E fs \in SessionFileSystems :
      \E mts_files \in MtsFilesChoices(fs.mtss) :
        /\ clips = find_clips(fs.movs, mts_files)
        /\ Len(clips) \in 1..MaxClips
        /\ disk = fs.movs \cup fs.mtss
        /\ read_only \in BOOLEAN
        /\ exit = FALSE
        /\ crashed = FALSE
        /\ in_buf = <<>>
        /\ msg = NoMsg
        /\ cursor_line = 0
        /\ top_v_line = 0
        /\ rows \in RowsRange
        /\ rows_editor = rows - 2
        /\ mode = "NORMAL"
        /\ p = "none"
        /\ alive = 0
        /\ arg = NoCall
        /\ res = NoRes

Next ==
    \/ KeyChar
    \/ KeyEnter
    \/ KeyBackspace
    \/ KeyResize
    \/ KeyOther
    \/ IdleTick
    \/ ProcExit

Spec == Init /\ [][Next]_vars

\* getch() returns after at most 100 ms, so an iteration without a key, and
\* with it the mode's update(), comes again and again.
LiveSpec == Spec /\ WF_vars(IdleTick)

(***************************************************************************)
(* Vocabulary of the properties                                            *)
(***************************************************************************)
\* The clips of a list, by their preview paths, in list order.
ClipPaths(cl) == [i \in 1..Len(cl) |-> cl[i].mov_file_path]

NotMarked(c) == ~c.marked_for_del
AnyMarked(cl) == \E i \in 1..Len(cl) : cl[i].marked_for_del

\* The step is the Enter key completing the command cmd in Normal mode.
Completes(cmd) == mode = "NORMAL" /\ in_buf = cmd /\ KeyEnter

CommitStep ==
    ~read_only /\ (Completes(<<":", "w">>) \/ Completes(<<":", "w", "q">>))

\* The step is the key ch typed with an empty buffer.
KeyStep(ch) == Running /\ in_buf = <<>> /\ LoopKey(ch, rows, NoFile)

MoveKeys == {"j", "k", "l", "h", "g", "G"}
MoveStep == mode = "NORMAL" /\ \E ch \in MoveKeys : KeyStep(ch)

InWindow(c, t, vr) == t <= c /\ c <= t + vr - 1

\* The top index nearest to t whose window of vr rows holds line c.
MinimalTop(c, t, vr) ==
    IF InWindow(c, t, vr) THEN t ELSE IF c < t THEN c ELSE c - (vr - 1)

(***************************************************************************)
(* C1: the clip list and the files on disk change only in a step that      *)
(* completes :w or :wq in a session that is not read-only; every other     *)
(* step leaves both unchanged.                                             *)
(***************************************************************************)
\* Every step but the Enter that completes :w or :wq in a writable session.
OtherThanCommit ==
    \/ KeyChar \/ KeyBackspace \/ KeyResize \/ KeyOther \/ IdleTick \/ ProcExit
    \/ /\ KeyEnter
       /\ \/ read_only
          \/ mode # "NORMAL"
          \/ in_buf \notin {<<":", "w">>, <<":", "w", "q">>}

C1_OnlyCommitDeletes ==
    [][/\ (ClipPaths(clips') # ClipPaths(clips) \/ disk' # disk) => CommitStep
       /\ OtherThanCommit =>
             (ClipPaths(clips') = ClipPaths(clips) /\ disk' = disk)
       /\ ~Running => (ClipPaths(clips') = ClipPaths(clips) /\ disk' = disk)]_vars

\* A commit has emptied the list and the disk of the clips' files.
C1_Witness ==
    /\ ~read_only /\ ~crashed /\ exit /\ clips = <<>>
    /\ \A f \in disk : f[1] = "mts"

(***************************************************************************)
(* C2: a commit in which no deletion fails leaves exactly the unmarked     *)
(* clips, in order, deletes both files of every marked clip and no file of *)
(* an unmarked clip, and leaves no marked clip in the list.                *)
(***************************************************************************)
C2_CommitRemovesExactlyMarked ==
    [][(CommitStep /\ ~crashed') =>
          /\ ClipPaths(clips') = ClipPaths(SelectSeq(clips, NotMarked))
          /\ ~AnyMarked(clips')
          /\ \A i \in 1..Len(clips) :
               IF clips[i].marked_for_del
               THEN /\ clips[i].mov_file_path \notin disk'
                    /\ clips[i].mts_file_path \notin disk'
               ELSE /\ clips[i].mov_file_path \in disk'
                    /\ clips[i].mts_file_path \in disk']_vars

(***************************************************************************)
(* C3: completing :q while a clip is marked leaves the clips, their marks, *)
(* the disk and the exit flag unchanged and sets a status message;         *)
(* completing :q while no clip is marked sets the exit flag.               *)
(***************************************************************************)
C3_QuitBlockedByMarks ==
    [][Completes(<<":", "q">>) =>
          IF AnyMarked(clips)
          THEN /\ clips' = clips /\ disk' = disk
               /\ exit' = exit /\ ~exit' /\ ~crashed'
               /\ msg' = UnsavedMsg
          ELSE exit']_vars

\* A blocked quit: the message is up, the mark is still there.
C3_Witness == msg = UnsavedMsg /\ ~exit /\ AnyMarked(clips)

(***************************************************************************)
(* C4: completing :q! or :cq sets the exit flag whether or not a clip is   *)
(* marked, deletes no file and removes no clip; nothing changes once the   *)
(* loop has ended, so the marked clips stay on disk.                       *)
(***************************************************************************)
C4_ForcedQuitDiscards ==
    [][/\ (Completes(<<":", "q", "!">>) \/ Completes(<<":", "c", "q">>)) =>
             (exit' /\ ~crashed' /\ clips' = clips /\ disk' = disk)
       /\ exit => (clips' = clips /\ disk' = disk)]_vars

\* The loop has ended with a marked clip whose files are still on disk.
C4_Witness ==
    /\ exit
    /\ \E i \in 1..Len(clips) :
         /\ clips[i].marked_for_del
         /\ clips[i].mov_file_path \in disk
         /\ clips[i].mts_file_path \in disk

(***************************************************************************)
(* C5: the mode is one of Normal and Play, Normal at the start; it changes *)
(* from Normal to Play only by a space typed with an empty buffer, and     *)
(* from Play to Normal only by an idle tick that finds the player gone or  *)
(* by a space.                                                             *)
(***************************************************************************)
\* Every event but a space typed with an empty buffer and an idle tick in
\* Play mode that finds the player gone.
OtherThanModeSwitch ==
    \/ /\ Running /\ Len(in_buf) < MaxBuf
       /\ \E ch \in (IF in_buf = <<>> THEN NormalKeys \ {" "} ELSE CmdChars) :
              LoopKey(ch, rows, NoFile)
    \/ KeyEnter \/ KeyBackspace \/ KeyResize \/ KeyOther \/ ProcExit
    \/ (IdleTick /\ (mode = "NORMAL" \/ p = "running"))

C5_ModeTransitions ==
    /\ mode = "NORMAL"
    /\ [][/\ mode' \in {"NORMAL", "PLAY"}
          /\ (mode = "NORMAL" /\ mode' = "PLAY") => KeyStep(" ")
          /\ (mode = "PLAY" /\ mode' = "NORMAL") =>
                ((IdleTick /\ p # "running") \/ KeyStep(" "))
          /\ OtherThanModeSwitch => mode' = mode]_vars

\* Back in Normal mode after a playback.
C5_Witness ==
    mode = "NORMAL" /\ \E i \in 1..Len(clips) : clips[i].played

(***************************************************************************)
(* C6: while the session lives (running or regularly ended) and the list   *)
(* is not empty, 0 <= cursor_line < number of clips.                       *)
(***************************************************************************)
C6_CursorInList ==
    (~crashed /\ Len(clips) > 0) =>
        (0 <= cursor_line /\ cursor_line < Len(clips))

\* The cursor on the last line of a list longer than the window.
C6_Witness ==
    /\ ~crashed /\ Len(clips) > rows_editor
    /\ cursor_line = Len(clips) - 1 /\ cursor_line > 0

(***************************************************************************)
(* C7: right after every cursor move (j, k, l, h, g, G) the cursor line    *)
(* lies in the window: top <= cursor <= top + visibleRows - 1.             *)
(***************************************************************************)
C7_CursorVisibleAfterMove ==
    [][MoveStep => InWindow(cursor_line', top_v_line', rows_editor')]_vars

\* A list longer than the window, scrolled so that the cursor is visible.
C7_Witness ==
    /\ Running /\ Len(clips) > rows_editor
    /\ top_v_line > 0 /\ cursor_line = top_v_line

(***************************************************************************)
(* C8 as stated: every cursor move leaves the top index alone when the     *)
(* new cursor line is inside the current window and otherwise changes it   *)
(* by the least amount that brings the line into the window.               *)
(***************************************************************************)
C8_EveryMoveMinimal ==
    [][MoveStep =>
          top_v_line' = MinimalTop(cursor_line', top_v_line, rows_editor)]_vars

(***************************************************************************)
(* C8 amended: the moves j, k, l, h and g adjust the top index minimally;  *)
(* G puts the top index at max(0, N - visibleRows), which is the minimal   *)
(* adjustment whenever the last line was outside the window.               *)
(***************************************************************************)
C8_MinimalExceptEnd ==
    [][/\ (mode = "NORMAL" /\ \E ch \in MoveKeys \ {"G"} : KeyStep(ch)) =>
             top_v_line' = MinimalTop(cursor_line', top_v_line, rows_editor)
       /\ (mode = "NORMAL" /\ KeyStep("G")) =>
             /\ top_v_line' = Max(0, Len(clips) - rows_editor)
             /\ ~InWindow(Len(clips) - 1, top_v_line, rows_editor) =>
                   top_v_line' =
                       MinimalTop(cursor_line', top_v_line, rows_editor)]_vars

\* Scrolled down by the least amount: the cursor on the window's last row.
C8_Witness ==
    /\ Running /\ top_v_line > 0
    /\ cursor_line = top_v_line + rows_editor - 1

(***************************************************************************)
(* C9: after a commit in which a deletion fails, every clip removed from   *)
(* the list has lost both files and every clip still listed has both its   *)
(* files on disk.                                                          *)
(***************************************************************************)
C9_FailedCommitConsistent ==
    [][(CommitStep /\ crashed') =>
          \A i \in 1..Len(clips) :
             LET c == clips[i]
                 listed == \E j \in 1..Len(clips') :
                              clips'[j].mov_file_path = c.mov_file_path
             IN IF listed
                THEN c.mov_file_path \in disk' /\ c.mts_file_path \in disk'
                ELSE c.mov_file_path \notin disk' /\ c.mts_file_path \notin disk']_vars

(***************************************************************************)
(* C10: a deletion that fails during :w or :wq does not end the session:   *)
(* it is reported, the clip stays listed with its files, the other marked  *)
(* clips are still removed and the loop runs on.                           *)
(***************************************************************************)
C10_FailedDeletionNotFatal ==
    [][(CommitStep /\ \E deny \in FilesToDelete : LoopKey("ENTER", rows, deny)) =>
          /\ ~crashed'
          /\ msg' # NoMsg
          /\ \A i \in 1..Len(clips') :
               /\ clips'[i].mov_file_path \in disk'
               /\ clips'[i].mts_file_path \in disk']_vars

(***************************************************************************)
(* C11: once the session is in Play mode and the player has ended, the     *)
(* mode returns to Normal, by the idle ticks alone.                        *)
(***************************************************************************)
C11_PlayEndsAfterExit == (mode = "PLAY" /\ p = "exited") ~> (mode = "NORMAL")

\* The player has ended while the session is still in Play mode.
C11_Witness == mode = "PLAY" /\ p = "exited" /\ alive = 0 /\ Running

(***************************************************************************)
(* C12: in Play mode a space kills the player and switches to Normal mode; *)
(* any other key leaves the mode, the cursor, the clips with their flags,  *)
(* the process and the exit flag unchanged, and the buffer is empty after  *)
(* every key.                                                              *)
(***************************************************************************)
OtherKeyInPlay ==
    /\ mode = "PLAY"
    /\ \/ /\ Running /\ Len(in_buf) < MaxBuf
          /\ \E ch \in (NormalKeys \cup CmdChars) \ {" "} :
                 LoopKey(ch, rows, NoFile)
       \/ KeyEnter \/ KeyBackspace \/ KeyResize \/ KeyOther

C12_PlayIgnoresKeys ==
    [][/\ (mode = "PLAY" /\ KeyStep(" ")) =>
             (mode' = "NORMAL" /\ p' # "running" /\ alive' = 0 /\ in_buf' = <<>>)
       /\ OtherKeyInPlay =>
             /\ mode' = mode /\ cursor_line' = cursor_line /\ clips' = clips
             /\ p' = p /\ alive' = alive /\ exit' = exit /\ ~crashed'
             /\ in_buf' = <<>>
       /\ mode' = "PLAY" => in_buf' = <<>>]_vars

\* A playback is running on a line other than the first, with a mark set.
C12_Witness ==
    /\ mode = "PLAY" /\ p = "running" /\ in_buf = <<>>
    /\ cursor_line > 0 /\ AnyMarked(clips)

(***************************************************************************)
(* C13: in a read-only session the key d changes no mark and sets a status *)
(* message.                                                                *)
(***************************************************************************)
C13_ReadOnlyMarkFeedback ==
    [][(read_only /\ mode = "NORMAL" /\ KeyStep("d")) =>
          (clips' = clips /\ msg' # NoMsg)]_vars

(***************************************************************************)
(* find_clips run on its own, over any bounded set of preview and raw      *)
(* files: every sub-directory may hold a file of every stem, on both       *)
(* sides, and a file need not have a partner.                               *)
(***************************************************************************)
\* The controller does not exist yet while main loads the data.
NoSession ==
    /\ clips = <<>> /\ read_only = FALSE /\ exit = FALSE /\ crashed = FALSE
    /\ in_buf = <<>> /\ msg = NoMsg /\ cursor_line = 0 /\ top_v_line = 0
    /\ rows = 0 /\ rows_editor = 0 /\ mode = "NORMAL" /\ p = "none" /\ alive = 0

session_vars == <<clips, disk, read_only, exit, crashed, in_buf, msg,
                  cursor_line, top_v_line, rows, rows_editor, mode, p, alive>>

AllMovFiles == {<<"mov", d, s>> : d \in 1..MaxDirs, s \in 1..MaxStems}
AllMtsFiles == {<<"mts", d, s>> : d \in 1..MaxDirs, s \in 1..MaxStems}

\* The preview files find_clips prints "Could not find MTS clip for" about.
RECURSIVE Mismatches(_, _, _)
Mismatches(movs, mts_files, i) ==
    IF i > Len(movs) THEN <<>>
    ELSE (IF get_file_name_base(movs[i]) \in DOMAIN mts_files
          THEN <<>>
          ELSE <<movs[i]>>) \o Mismatches(movs, mts_files, i + 1)

InitFind ==
    /\ NoSession
    /\ \E movs \in SUBSET AllMovFiles, mtss \in SUBSET AllMtsFiles :
          /\ disk = movs \cup mtss
          /\ arg = [fn |-> "find_clips", mov_file_pathes |-> movs,
                    mts_file_pathes |-> mtss]
    /\ res = NoRes

Scan ==
    /\ arg.fn = "find_clips" /\ ~res.done
    /\ \E mts_files \in MtsFilesChoices(arg.mts_file_pathes) :
          res' = [done |-> TRUE,
                  val |-> [clips |-> find_clips(arg.mov_file_pathes, mts_files),
                           printed |-> Mismatches(sorted(arg.mov_file_pathes),
                                                  mts_files, 1)]]
    /\ UNCHANGED <<session_vars, arg>>

NextFind == Scan

SpecFind == InitFind /\ [][NextFind]_vars

Stems(files) == {get_file_name_base(f) : f \in files}
Range(seq) == {seq[i] : i \in 1..Len(seq)}

\* The three parts of the registry's contract, for a finished scan.
OneClipPerCommonStem ==
    \A b \in Stems(arg.mov_file_pathes) \cap Stems(arg.mts_file_pathes) :
        Cardinality({i \in 1..Len(res.val.clips) :
            get_file_name_base(res.val.clips[i].mov_file_path) = b}) = 1

MismatchesReported ==
    \A f \in arg.mov_file_pathes :
        get_file_name_base(f) \notin Stems(arg.mts_file_pathes) =>
            /\ f \notin Range(ClipPaths(res.val.clips))
            /\ f \in Range(res.val.printed)

SortedByPreviewPath ==
    \A i, j \in 1..Len(res.val.clips) :
        i < j => PathLess(res.val.clips[i].mov_file_path,
                          res.val.clips[j].mov_file_path)

(***************************************************************************)
(* C14: find_clips yields exactly one clip for every stem that has both a  *)
(* raw and a preview file, yields no clip and prints a mismatch for every  *)
(* preview file whose stem has no raw file, and orders the clips by their  *)
(* preview file paths.                                                     *)
(***************************************************************************)
C14_OneClipPerStem ==
    (arg.fn = "find_clips" /\ res.done) =>
        /\ OneClipPerCommonStem
        /\ MismatchesReported
        /\ SortedByPreviewPath

\* Of the contract, mismatch reports and the order do hold.
FindReportsAndSorts ==
    (arg.fn = "find_clips" /\ res.done) =>
        (MismatchesReported /\ SortedByPreviewPath)

(***************************************************************************)
(* C15: in a writable session no clip is marked once :w has returned, the  *)
(* marks stay clear until d is pressed, and :q without marks sets the exit *)
(* flag; with the clips A, B, C the keys j, j, d, :w Enter leave A, B in   *)
(* this order with the cursor on one of them, and :q Enter then exits.     *)
(***************************************************************************)
ClipA == <<"mov", 1, 1>>
ClipB == <<"mov", 1, 2>>
ClipC == <<"mov", 1, 3>>

\* The session shows A, B, C, nothing marked, the cursor on A.
ScenarioStart ==
    /\ ClipPaths(clips) = <<ClipA, ClipB, ClipC>> /\ ~AnyMarked(clips)
    /\ cursor_line = 0 /\ mode = "NORMAL" /\ in_buf = <<>>
    /\ ~read_only /\ Running

\* The keys j, j, d have been typed on A, B, C, and :w is in the buffer.
ScenarioBeforeEnter ==
    /\ ClipPaths(clips) = <<ClipA, ClipB, ClipC>>
    /\ ~clips[1].marked_for_del /\ ~clips[2].marked_for_del
    /\ clips[3].marked_for_del
    /\ cursor_line = 2 /\ mode = "NORMAL" /\ in_buf = <<":", "w">>
    /\ ~read_only /\ Running

\* j, j, d, :w Enter, :q Enter, as the handlers of the keys in a row.
ScenarioRun ==
    LET s1 == move_cursor_line(View, 1)
        s2 == move_cursor_line(s1, 1)
        s3 == toggle_del_at_cursor_line(s2, read_only)
        s4 == NormalMode_command(s3, <<":", "w">>, read_only, NoFile)
        s5 == NormalMode_command(s4, <<":", "q">>, read_only, NoFile)
    IN /\ ClipPaths(s4.clips) = <<ClipA, ClipB>>
       /\ s4.cursor_line \in 0..1
       /\ ~s4.exit /\ ~s4.crashed
       /\ ClipC \notin s4.disk
       /\ s5.exit

C15_QuitAfterCommit ==
    [][/\ (~read_only /\ Completes(<<":", "w">>) /\ ~crashed') =>
             ~AnyMarked(clips')
       /\ (~AnyMarked(clips) /\ ~(mode = "NORMAL" /\ KeyStep("d"))) =>
             ~AnyMarked(clips')
       /\ (Completes(<<":", "q">>) /\ ~AnyMarked(clips)) => exit'
       /\ ScenarioStart => ScenarioRun
       /\ (ScenarioBeforeEnter /\ KeyEnter /\ ~crashed') =>
             /\ ClipPaths(clips') = <<ClipA, ClipB>>
             /\ cursor_line' \in 0..1
             /\ ~AnyMarked(clips') /\ ~exit' /\ in_buf' = <<>>]_vars

\* C is marked, still on disk, and :w waits for its Enter.
C15_Witness == ScenarioBeforeEnter /\ ClipC \in disk

(***************************************************************************)
(* C16: Enter on a buffer that starts with ":" and is none of :w, :wq, :q, *)
(* :q!, :cq sets a status message holding the typed text and changes       *)
(* nothing else: clips with their flags, cursor, top, mode, disk and exit  *)
(* flag stay, and the buffer is cleared.                                   *)
(***************************************************************************)
KnownCommands ==
    {<<":", "w">>, <<":", "w", "q">>, <<":", "q">>, <<":", "q", "!">>,
     <<":", "c", "q">>}

UnknownCommandStep ==
    /\ mode = "NORMAL" /\ in_buf # <<>> /\ Head(in_buf) = ":"
    /\ in_buf \notin KnownCommands
    /\ KeyEnter

C16_UnknownCommand ==
    [][UnknownCommandStep =>
          /\ msg' = UnknownMsg(in_buf)
          /\ clips' = clips /\ disk' = disk
          /\ cursor_line' = cursor_line /\ top_v_line' = top_v_line
          /\ mode' = mode /\ p' = p /\ alive' = alive
          /\ exit' = exit /\ ~crashed'
          /\ in_buf' = <<>>]_vars

\* An unknown command has just been reported, with marks and a moved cursor
\* still in place.
C16_Witness ==
    /\ msg.kind = "unknown" /\ msg.text \notin KnownCommands
    /\ in_buf = <<>> /\ AnyMarked(clips) /\ cursor_line > 0 /\ Running

(***************************************************************************)
(* C17: in a writable session the key d negates the delete mark of the     *)
(* clip at the cursor and changes nothing else of the list, the cursor or  *)
(* the mode; pressed twice in a row it restores the mark.                  *)
(***************************************************************************)
ToggleStep == ~read_only /\ mode = "NORMAL" /\ KeyStep("d")

Toggled(cl, i) == [cl EXCEPT ![i].marked_for_del = ~cl[i].marked_for_del]

C17_ToggleInvolution ==
    [][ToggleStep =>
          /\ clips' = Toggled(clips, cursor_line + 1)
          /\ ClipPaths(clips') = ClipPaths(clips)
          /\ \A i \in 1..Len(clips) :
               /\ clips'[i].played = clips[i].played
               /\ i # cursor_line + 1 =>
                      clips'[i].marked_for_del = clips[i].marked_for_del
          /\ cursor_line' = cursor_line /\ mode' = mode
          /\ LET once == toggle_del_at_cursor_line(View, read_only)
                 twice == toggle_del_at_cursor_line(once, read_only)
             IN /\ once.clips = clips'
                /\ twice.clips = clips
                /\ twice.cursor_line = cursor_line]_vars

\* The clip at the cursor, not the first of several, carries a mark.
C17_Witness ==
    /\ ~read_only /\ Running /\ mode = "NORMAL" /\ in_buf = <<>>
    /\ Len(clips) > 1 /\ cursor_line > 0
    /\ clips[cursor_line + 1].marked_for_del

(***************************************************************************)
(* C18: at most one player process of the session is alive, none while the *)
(* mode is Normal and none once the loop has ended; the exit flag is set   *)
(* only by an Enter in Normal mode.                                        *)
(***************************************************************************)
OnePlayer ==
    /\ alive \in {0, 1}
    /\ alive = 1 <=> (mode = "PLAY" /\ p = "running")
    /\ mode = "NORMAL" => alive = 0
    /\ ~Running => (alive = 0 /\ mode = "NORMAL")

C18_OnePlayerOwned ==
    [][/\ OnePlayer /\ OnePlayer'
       /\ (exit' /\ ~exit) => (mode = "NORMAL" /\ KeyEnter)
       /\ (crashed' /\ ~crashed) => (mode = "NORMAL" /\ KeyEnter)]_vars

\* A player is running in Play mode after an earlier playback has ended.
C18_Witness ==
    /\ alive = 1 /\ mode = "PLAY" /\ p = "running"
    /\ Cardinality({i \in 1..Len(clips) : clips[i].played}) > 1

(***************************************************************************)
(* C19: while the loop runs the clip list is not empty and the cursor      *)
(* indexes one of its clips; a commit that empties the list sets the exit  *)
(* flag in the same step.                                                  *)
(***************************************************************************)
C19_NeverEmptyWhileRunning ==
    /\ ~exit => Len(clips) > 0
    /\ Running => cursor_line + 1 \in DOMAIN clips

\* The last clips were committed away and the loop has ended.
C19_Witness ==
    /\ exit /\ ~crashed /\ Len(clips) = 0 /\ in_buf = <<>> /\ mode = "NORMAL"

(***************************************************************************)
(* __trunc_text run on its own, over texts of up to MaxText characters,    *)
(* terminals of up to MaxCols columns and any requested length, also a     *)
(* negative one or one beyond the terminal's width.                        *)
(***************************************************************************)
TextChars == {"a", "b"}
Texts == UNION {[1..n -> TextChars] : n \in 0..MaxText}
Dots(n) == [i \in 1..n |-> "."]

\* text[:n] of Python: a negative n counts from the end of the text.
slice_to(text, n) ==
    SubSeq(text, 1, IF n >= 0 THEN Min(n, Len(text))
                    ELSE Max(0, Len(text) + n))

trunc_limit(cols, length) == Max(0, Min(cols, length))

trunc_text(text, length, cols) ==
    LET limit == trunc_limit(cols, length)
    IN IF Len(text) <= limit THEN text
       ELSE IF Len(text) >= 3 THEN slice_to(text, limit - 3) \o Dots(3)
       ELSE Dots(limit)

InitTrunc ==
    /\ NoSession /\ disk = {}
    /\ \E text \in Texts, length \in -1..(MaxCols + 1), cols \in 0..MaxCols :
          arg = [fn |-> "trunc_text", text |-> text, length |-> length,
                 cols |-> cols]
    /\ res = NoRes

Trunc ==
    /\ arg.fn = "trunc_text" /\ ~res.done
    /\ res' = [done |-> TRUE,
               val |-> trunc_text(arg.text, arg.length, arg.cols)]
    /\ UNCHANGED <<session_vars, arg>>

NextTrunc == Trunc

SpecTrunc == InitTrunc /\ [][NextTrunc]_vars

\* The rule of the truncation for the text, the width W and the result r.
TruncRule(text, W, r) ==
    /\ Len(r) <= W
    /\ Len(text) <= W => r = text
    /\ (Len(text) > W /\ W >= 3) => r = SubSeq(text, 1, W - 3) \o Dots(3)
    /\ (Len(text) > W /\ W < 3) => r = Dots(W)

(***************************************************************************)
(* C20: the truncation of a text to the width W returns at most W          *)
(* characters: the text itself when it fits, its first W - 3 characters    *)
(* and "..." when it does not and W >= 3, and W dots when W < 3.           *)
(***************************************************************************)
C20_TruncFitsWidth ==
    (arg.fn = "trunc_text" /\ res.done) =>
        TruncRule(arg.text, trunc_limit(arg.cols, arg.length), res.val)

\* The rule does hold for widths from 3 on and for texts shorter than 3.
TruncFitsFromThree ==
    (/\ arg.fn = "trunc_text" /\ res.done
     /\ (trunc_limit(arg.cols, arg.length) >= 3 \/ Len(arg.text) < 3)) =>
        TruncRule(arg.text, trunc_limit(arg.cols, arg.length), res.val)

====
